---- MODULE Spec2Model ----
(***************************************************************************)
(* Model of src/bank-Js.js (class BankAccountSystem): the in-memory ledger *)
(* (accounts, transactions, runningNumbers), the interest rule list and    *)
(* the three prompt handlers inputTransaction, defineInterestRule and      *)
(* printStatement, driven from the main menu.                              *)
(*                                                                         *)
(* Representation.                                                         *)
(*  - A date string "YYYYMMDD" is the natural number it spells; the code   *)
(*    compares dates as strings (localeCompare, <, <=), which on digit     *)
(*    strings of equal length is the numeric order. substring(0,4),        *)
(*    substring(4,6), substring(6,8) are \div and % by powers of ten.      *)
(*  - A month string "YYYYMM" is the natural number it spells.             *)
(*  - An amount string is [whole, frac]: the digits before the point as a  *)
(*    number and the digits after it as a sequence (<<>>: no point).       *)
(*    A rate string is written the same way.                               *)
(*  - A transaction id is the sequence of its characters: digits as the    *)
(*    numbers 0..9 and "-" as Dash; the empty string is <<>>.              *)
(*  - A number (amount, rate, balance, interest) is a double, as in the    *)
(*    code: parseFloat, +, -, *, /, < and toFixed(2) are those of IEEE 754 *)
(*    binary64, round to nearest, ties to even.                            *)
(***************************************************************************)
EXTENDS Integers, Sequences, FiniteSets, TLC

VARIABLES accounts, transactions, interestRules, runningNumbers, pc, out

vars == <<accounts, transactions, interestRules, runningNumbers, pc, out>>

\* The four fields of BankAccountSystem set by the constructor.
bank == <<accounts, transactions, interestRules, runningNumbers>>

(***************************************************************************)
(* Bounds and input alphabets                                              *)
(***************************************************************************)
\* Greatest number of accepted transactions in a session.
MaxTxns == 2

\* Account strings are free format. "constructor" is a property every
\* JavaScript object inherits from Object.prototype.
Accounts == {"AC001", "AC002", "constructor"}

\* 20230631 is calendrically impossible.
TxnDates == {20230531, 20230610, 20230631}

TypeStrs == {"D", "w", "X"}

\* "100.00", "200", "0.00", "1.234"
AmountStrs ==
  { [whole |-> 100, frac |-> <<0, 0>>],
    [whole |-> 200, frac |-> <<>>],
    [whole |-> 0, frac |-> <<0, 0>>],
    [whole |-> 1, frac |-> <<2, 3, 4>>] }

\* Amounts with cents: "0.30", "0.10", "0.20"
CentAmountStrs ==
  { [whole |-> 0, frac |-> <<3, 0>>],
    [whole |-> 0, frac |-> <<1, 0>>],
    [whole |-> 0, frac |-> <<2, 0>>] }

\* 20231301 has month 13.
RuleDates == {20230520, 20230615, 20231301}

RuleIds == {"RULE01"}

\* "1.00", "2.20", "0", "100"
RateInputs ==
  { [whole |-> 1, frac |-> <<0, 0>>],
    [whole |-> 2, frac |-> <<2, 0>>],
    [whole |-> 0, frac |-> <<>>],
    [whole |-> 100, frac |-> <<>>] }

\* The inputs of the sessions that only define interest rules (SpecRules).
ScheduleDates == {20230520, 20230601, 20230615, 20231301}

ScheduleRuleIds == {"RULE01", "RULE02"}

\* 20236 has five characters.
MonthStrs == {202305, 202306, 20236}

(***************************************************************************)
(* Helper methods                                                          *)
(***************************************************************************)
IsLeapYear(y) == (y % 4 = 0 /\ y % 100 # 0) \/ y % 400 = 0

\* new Date(year, month + 1, 0).getDate() for a month in 1..12
DaysInMonth(y, m) ==
  IF m \in {4, 6, 9, 11} THEN 30
  ELSE IF m = 2 THEN (IF IsLeapYear(y) THEN 29 ELSE 28)
  ELSE 31

YearOf(d) == d \div 10000
MonthOf(d) == (d \div 100) % 100
DayOf(d) == d % 100

\* isValidDate: eight digits, and new Date(year, month, day) gives back the
\* same year, month and day (no roll-over into a neighbouring month).
isValidDate(dateStr) ==
  /\ dateStr >= 10000000
  /\ dateStr <= 99999999
  /\ MonthOf(dateStr) \in 1..12
  /\ DayOf(dateStr) \in 1..DaysInMonth(YearOf(dateStr), MonthOf(dateStr))

\* isValidAmount: no point, or at most two characters after it.
isValidAmount(amountStr) == Len(amountStr.frac) <= 2

RECURSIVE Pow10(_)
Pow10(n) == IF n = 0 THEN 1 ELSE 10 * Pow10(n - 1)

RECURSIVE DigitsValue(_)
DigitsValue(ds) ==
  IF ds = <<>> THEN 0
  ELSE 10 * DigitsValue(SubSeq(ds, 1, Len(ds) - 1)) + ds[Len(ds)]

(***************************************************************************)
(* JavaScript numbers: IEEE 754 binary64 arithmetic                       *)
(***************************************************************************)
\* A natural number of any size is the sequence of its limbs, least
\* significant first, without leading zero limbs; <<>> is 0. A limb holds 15
\* bits, so that a product of two limbs stays below 2^31. The carries of a
\* sum are found by lookahead, not by a loop over the limbs.
Limb == 2^15

Max(S) == CHOOSE x \in S : \A y \in S : y <= x

\* The i-th limb, 0 beyond the most significant one.
BigLimb(a, i) == IF i \in 1..Len(a) THEN a[i] ELSE 0

\* The limbs without leading zeros.
BigNorm(a) ==
  LET nonzero == {i \in 1..Len(a) : a[i] # 0}
  IN IF a = <<>> THEN <<>>
     ELSE IF a[Len(a)] # 0 THEN SubSeq(a, 1, Len(a))
     ELSE IF nonzero = {} THEN <<>>
     ELSE SubSeq(a, 1, Max(nonzero))

\* An integer 0 <= n < 2^31 as limbs, and back.
BigFromInt(n) == BigNorm(<<n % Limb, (n \div Limb) % Limb, n \div (Limb * Limb)>>)

BigToInt(a) == BigLimb(a, 1) + (Limb * BigLimb(a, 2)) + (Limb * Limb * BigLimb(a, 3))

\* a + b: position i receives a carry when some lower position overflows
\* and every position between is full.
BigAdd(a, b) ==
  LET n == Max({Len(a), Len(b)}) + 1
      s == [i \in 1..n |-> BigLimb(a, i) + BigLimb(b, i)]
      carry == [i \in 1..n |->
                  IF \E j \in 1..(i - 1) :
                       s[j] >= Limb /\ \A k \in (j + 1)..(i - 1) : s[k] = Limb - 1
                  THEN 1 ELSE 0]
  IN IF a = <<>> THEN BigNorm(b)
     ELSE IF b = <<>> THEN BigNorm(a)
     ELSE BigNorm([i \in 1..n |-> (s[i] + carry[i]) % Limb])

\* a - b for a >= b: position i lends when some lower position is short and
\* every position between is empty.
BigSub(a, b) ==
  LET n == Len(a)
      d == [i \in 1..n |-> a[i] - BigLimb(b, i)]
      borrow == [i \in 1..n |->
                   IF \E j \in 1..(i - 1) :
                        d[j] < 0 /\ \A k \in (j + 1)..(i - 1) : d[k] = 0
                   THEN 1 ELSE 0]
  IN IF b = <<>> THEN a
     ELSE BigNorm([i \in 1..n |-> (d[i] - borrow[i] + Limb) % Limb])

\* -1, 0 or 1 as a < b, a = b or a > b
BigCmp(a, b) ==
  LET differ == {i \in 1..Max({Len(a), Len(b)}) : BigLimb(a, i) # BigLimb(b, i)}
  IN IF a = b THEN 0
     ELSE IF BigLimb(a, Max(differ)) < BigLimb(b, Max(differ)) THEN 0 - 1
     ELSE 1

\* a * k for 0 <= k < Limb: the low halves of the limb products plus their
\* high halves one position up.
BigMulSmall(a, k) ==
  LET n == Len(a)
  IN IF a = <<>> \/ k = 0 THEN <<>>
     ELSE BigAdd([i \in 1..n |-> (a[i] * k) % Limb],
                 [i \in 1..(n + 1) |-> IF i = 1 THEN 0 ELSE (a[i - 1] * k) \div Limb])

\* a * b by rows: the limbs of a from position i on, times b.
RECURSIVE BigMulFrom(_, _, _)
BigMulFrom(a, b, i) ==
  IF i > Len(a) THEN <<>>
  ELSE BigAdd(BigMulSmall(b, a[i]), <<0>> \o BigMulFrom(a, b, i + 1))

BigMul(a, b) == IF Len(a) <= Len(b) THEN BigMulFrom(a, b, 1) ELSE BigMulFrom(b, a, 1)

\* The remainder by k of the number made of the limbs of a above position i.
RECURSIVE BigRemAbove(_, _, _)
BigRemAbove(a, k, i) ==
  IF i >= Len(a) THEN 0 ELSE ((BigRemAbove(a, k, i + 1) * Limb) + a[i + 1]) % k

\* Quotient and remainder of a by k, for 0 < k < Limb: the long division,
\* whose quotient limb at position i divides the remainder from above it
\* followed by the limb.
BigDivSmall(a, k) ==
  IF a = <<>> THEN [q |-> <<>>, r |-> 0]
  ELSE [q |-> BigNorm([i \in 1..Len(a) |->
                        ((BigRemAbove(a, k, i) * Limb) + a[i]) \div k]),
        r |-> BigRemAbove(a, k, 0)]

\* a * 2^n
BigShl(a, n) ==
  LET s == n % 15
      shifted == [i \in 1..(Len(a) + 1) |->
                    ((BigLimb(a, i) % (2^(15 - s))) * (2^s))
                      + (BigLimb(a, i - 1) \div (2^(15 - s)))]
  IN IF a = <<>> \/ n = 0 THEN a
     ELSE [i \in 1..(n \div 15) |-> 0] \o BigNorm(shifted)

\* floor(a / 2^n)
BigShr(a, n) ==
  LET drop == n \div 15
      s == n % 15
  IN IF a = <<>> \/ n = 0 THEN a
     ELSE BigNorm([i \in 1..(Len(a) - drop) |->
                     (a[i + drop] \div (2^s))
                       + ((BigLimb(a, i + drop + 1) % (2^s)) * (2^(15 - s)))])

\* The number of bits of a.
BigBitLen(a) ==
  IF a = <<>> THEN 0
  ELSE (Len(a) - 1) * 15 + Cardinality({j \in 0..14 : 2^j <= a[Len(a)]})

BigIsOdd(a) == a # <<>> /\ a[1] % 2 = 1

\* Bit n of a, counted from 0, and whether a bit below it is set.
BigBit(a, n) == (BigLimb(a, (n \div 15) + 1) \div (2^(n % 15))) % 2

BigAnyBitBelow(a, n) ==
  \/ \E i \in 1..(n \div 15) : BigLimb(a, i) # 0
  \/ BigLimb(a, (n \div 15) + 1) % (2^(n % 15)) # 0

\* floor(a / 2^n) rounded on the n bits dropped: to nearest, a tie to `tieUp`
\* (TRUE: up) or to even (FALSE)
BigShrRound(a, n, tieUp) ==
  LET q == BigShr(a, n)
  IN IF a = <<>> \/ n = 0 THEN a
     ELSE IF BigBit(a, n - 1) = 1 /\ (BigAnyBitBelow(a, n - 1) \/ tieUp \/ BigIsOdd(q))
     THEN BigAdd(q, <<1>>)
     ELSE q

\* The number of zero bits below the lowest bit set of a, for a # <<>>.
BigTrailingZeros(a) ==
  LET i == CHOOSE i \in 1..Len(a) : a[i] # 0 /\ \A j \in 1..(i - 1) : a[j] = 0
  IN IF a[1] % 2 = 1 THEN 0
     ELSE ((i - 1) * 15) + Cardinality({j \in 1..14 : a[i] % (2^j) = 0})

\* A double is (-1)^neg * mant * 2^exp, with mant an odd number of at most
\* 53 bits; zero has the significand <<>>. (Infinities, NaN, subnormals and
\* the sign of zero do not arise from the amounts and rates of a session.)
MantBits == 53

Zero == [neg |-> FALSE, mant |-> <<>>, exp |-> 0]

\* (-1)^neg * m * 2^e for m # <<>> of at most 53 bits, the significand made odd.
OddSignificand(neg, m, e) ==
  LET zeros == BigTrailingZeros(m)
  IN [neg |-> neg, mant |-> BigShr(m, zeros), exp |-> e + zeros]

\* The double nearest to (-1)^neg * m * 2^e, a tie going to the even
\* 53-bit significand.
RoundToDouble(neg, m, e) ==
  LET n == BigBitLen(m) - MantBits
  IN IF m = <<>> THEN Zero
     ELSE IF n <= 0 THEN OddSignificand(neg, m, e)
     ELSE OddSignificand(neg, BigShrRound(m, n, FALSE), e + n)

\* The quotient of m * 2^e by an integer 0 < k < Limb, as a double: m is
\* scaled to 70 bits, which leaves the quotient at least 55, and a remainder
\* is kept as a last bit set.
QuotientToDouble(neg, m, e, k) ==
  LET shift == 70 - BigBitLen(m)
      scaled == BigDivSmall(BigShl(m, shift), k)
      sticky == IF scaled.r # 0 /\ ~BigIsOdd(scaled.q)
                THEN [scaled.q EXCEPT ![1] = @ + 1] ELSE scaled.q
  IN IF m = <<>> THEN Zero ELSE RoundToDouble(neg, sticky, e - shift)

NumNeg(x) == IF x.mant = <<>> THEN Zero ELSE [x EXCEPT !.neg = ~x.neg]

\* x + y
NumAdd(x, y) ==
  IF x.mant = <<>> THEN y
  ELSE IF y.mant = <<>> THEN x
  ELSE LET e == IF x.exp < y.exp THEN x.exp ELSE y.exp
           mx == BigShl(x.mant, x.exp - e)
           my == BigShl(y.mant, y.exp - e)
           c == BigCmp(mx, my)
       IN IF x.neg = y.neg THEN RoundToDouble(x.neg, BigAdd(mx, my), e)
          ELSE IF c = 0 THEN Zero
          ELSE IF c > 0 THEN RoundToDouble(x.neg, BigSub(mx, my), e)
          ELSE RoundToDouble(y.neg, BigSub(my, mx), e)

\* x - y
NumSub(x, y) == NumAdd(x, NumNeg(y))

\* x * y
NumMul(x, y) ==
  IF x.mant = <<>> \/ y.mant = <<>> THEN Zero
  ELSE RoundToDouble(x.neg # y.neg, BigMul(x.mant, y.mant), x.exp + y.exp)

\* x * k and x / k for an integer 0 < k < Limb
NumMulInt(x, k) ==
  IF x.mant = <<>> THEN Zero ELSE RoundToDouble(x.neg, BigMulSmall(x.mant, k), x.exp)

NumDivInt(x, k) ==
  IF x.mant = <<>> THEN Zero ELSE QuotientToDouble(x.neg, x.mant, x.exp, k)

\* |x| < |y|
NumMagnitudeLess(x, y) ==
  LET e == IF x.exp < y.exp THEN x.exp ELSE y.exp
      topx == BigBitLen(x.mant) + x.exp
      topy == BigBitLen(y.mant) + y.exp
  IN IF y.mant = <<>> THEN FALSE
     ELSE IF x.mant = <<>> THEN TRUE
     ELSE IF topx # topy THEN topx < topy
     ELSE BigCmp(BigShl(x.mant, x.exp - e), BigShl(y.mant, y.exp - e)) < 0

\* x < y
NumLess(x, y) ==
  IF x.neg # y.neg THEN x.neg
  ELSE IF x.neg THEN NumMagnitudeLess(y, x)
  ELSE NumMagnitudeLess(x, y)

\* x > 0
NumPositive(x) == x.mant # <<>> /\ ~x.neg

\* The double of an integer 0 <= n < 2^31.
NumOfInt(n) == RoundToDouble(FALSE, BigFromInt(n), 0)

\* The double nearest to n / d, for d in {1, 10, 100, 1000}.
NumOfDecimal(neg, n, d) == QuotientToDouble(neg, BigFromInt(n), 0, d)

\* x.toFixed(2): the sign and the integer n for which n / 100 is nearest to
\* |x|, the larger n on a tie.
toFixed2(x) ==
  LET scaled == BigMulSmall(x.mant, 100)
      n == BigToInt(IF x.exp >= 0 THEN BigShl(scaled, x.exp)
                    ELSE BigShrRound(scaled, 0 - x.exp, TRUE))
  IN IF x.mant = <<>> THEN [neg |-> FALSE, whole |-> 0, frac |-> 0]
     ELSE [neg |-> x.neg, whole |-> n \div 100, frac |-> n % 100]

(***************************************************************************)
(* Helper methods (continued)                                              *)
(***************************************************************************)
\* The double nearest to the decimal a string spells.
NumOfString(str) ==
  NumOfDecimal(FALSE, str.whole * Pow10(Len(str.frac)) + DigitsValue(str.frac),
               Pow10(Len(str.frac)))

\* The strings of the input alphabets with their doubles, computed once.
ParsedInputs == [str \in AmountStrs \cup CentAmountStrs \cup RateInputs |-> NumOfString(str)]

\* parseFloat(str)
parseFloat(str) ==
  IF str \in DOMAIN ParsedInputs THEN ParsedInputs[str] ELSE NumOfString(str)

toUpperCase(s) == IF s = "d" THEN "D" ELSE IF s = "w" THEN "W" ELSE s

\* n.toString(): the decimal digits of n, most significant first.
RECURSIVE toString(_)
toString(n) == IF n < 10 THEN <<n>> ELSE Append(toString(n \div 10), n % 10)

\* s.padStart(2, "0")
padStart2(s) == IF Len(s) < 2 THEN <<0>> \o s ELSE s

calculateNewBalance(balance, type, amount) ==
  IF type = "D" THEN NumAdd(balance, amount) ELSE NumSub(balance, amount)

\* The fold of calculateNewBalance over a transaction sequence, from balance b.
RECURSIVE FoldBalance(_, _)
FoldBalance(b, txns) ==
  IF txns = <<>> THEN b
  ELSE FoldBalance(calculateNewBalance(b, Head(txns).type, Head(txns).amount), Tail(txns))

\* this.accounts is a plain object ({}): the lookup this.accounts[account]
\* finds the account's own entry, or else a property inherited from
\* Object.prototype (a function or object, which is truthy and has no
\* `transactions` property).
ObjectPrototypeKeys == {"constructor"}

Truthy(account) == account \in DOMAIN accounts \/ account \in ObjectPrototypeKeys

\* this.accounts[account].transactions is undefined: iterating it, or
\* calling push, filter or sort on it, throws a TypeError.
TransactionsUndefined(account) ==
  account \notin DOMAIN accounts /\ account \in ObjectPrototypeKeys

\* A value of getAccountBalance is <<>> (null) or <<balance>>.
Null == <<>>

\* getAccountBalance: null for an unknown account, else the fold over the
\* account's transactions in their stored order.
getAccountBalance(account) ==
  IF ~Truthy(account) THEN Null
  ELSE <<FoldBalance(Zero, accounts[account].transactions)>>

\* Array.prototype.sort((a, b) => a.date.localeCompare(b.date)): a stable
\* sort by date ascending.
RECURSIVE InsertByDate(_, _)
InsertByDate(t, s) ==
  IF s = <<>> THEN <<t>>
  ELSE IF Head(s).date <= t.date THEN <<Head(s)>> \o InsertByDate(t, Tail(s))
  ELSE <<t>> \o s

RECURSIVE SortByDate(_)
SortByDate(s) ==
  IF s = <<>> THEN <<>>
  ELSE InsertByDate(s[Len(s)], SortByDate(SubSeq(s, 1, Len(s) - 1)))

\* generateTransactionId: the counter of the date after the increment, and
\* the id `${dateStr}-${n.toString().padStart(2, "0")}`.
NextRunningNumber(dateStr) ==
  IF dateStr \in DOMAIN runningNumbers THEN runningNumbers[dateStr] + 1 ELSE 1

\* The character "-" in a string of digits.
Dash == -1

\* Variant: the id built from the counter before its increment.
generateTransactionIdBeforeIncrement(dateStr) ==
  toString(dateStr) \o <<Dash>> \o padStart2(toString(NextRunningNumber(dateStr) - 1))

generateTransactionId(dateStr) ==
  toString(dateStr) \o <<Dash>> \o padStart2(toString(NextRunningNumber(dateStr)))

(***************************************************************************)
(* Initial state: the constructor, then start() shows the main menu.       *)
(***************************************************************************)
NoOutput == [op |-> "none", msg |-> "none"]

Init ==
  /\ accounts = [a \in {} |-> [createdDate |-> 0, transactions |-> <<>>]]
  /\ transactions = <<>>
  /\ interestRules = <<>>
  /\ runningNumbers = [d \in {} |-> 0]
  /\ pc = "menu"
  /\ out = NoOutput

(***************************************************************************)
(* Main menu: promptUser / showMainMenu                                    *)
(***************************************************************************)
\* "T", "I" or "P" (any case) opens the handler's prompt.
ChooseOption(choice) ==
  /\ pc = "menu"
  /\ pc' = choice
  /\ out' = NoOutput
  /\ UNCHANGED bank

\* Any other input: "Invalid option", and the menu is shown again.
InvalidOption ==
  /\ pc = "menu"
  /\ pc' = "menu"
  /\ out' = [op |-> "menu", msg |-> "InvalidOption"]
  /\ UNCHANGED bank

\* "Q": rl.close() ends the session.
Quit ==
  /\ pc = "menu"
  /\ pc' = "closed"
  /\ out' = [op |-> "menu", msg |-> "Quit"]
  /\ UNCHANGED bank

\* A blank line at a handler's prompt goes back to the main menu.
Blank ==
  /\ pc \in {"T", "I", "P"}
  /\ pc' = "menu"
  /\ out' = NoOutput
  /\ UNCHANGED bank

\* A line with the wrong number of fields: the handler prompts again.
InvalidFormat ==
  /\ pc \in {"T", "I", "P"}
  /\ pc' = pc
  /\ out' = [op |-> pc, msg |-> "InvalidFormat"]
  /\ UNCHANGED bank

\* A handler's early return: it logs a message and prompts again.
Reject(op, msg) ==
  /\ pc' = op
  /\ out' = [op |-> op, msg |-> msg]
  /\ UNCHANGED bank

(***************************************************************************)
(* inputTransaction                                                        *)
(***************************************************************************)
\* Variant of the withdrawal check: the balance compared with zero.
InsufficientBalanceAgainstZero(currentBalance, amount) == NumLess(currentBalance, Zero)

\* currentBalance < amount
InsufficientBalance(currentBalance, amount) == NumLess(currentBalance, amount)

\* runningNumbers after generateTransactionId(dateStr)
BumpRunningNumber(dateStr) ==
  [d \in DOMAIN runningNumbers \cup {dateStr} |->
     IF d = dateStr THEN NextRunningNumber(dateStr) ELSE runningNumbers[d]]

\* Variant: the transaction is pushed and the account's array is left as it is.
PushWithoutDisplay(account, dateStr, transaction) ==
  LET old == IF account \in DOMAIN accounts
             THEN accounts[account]
             ELSE [createdDate |-> dateStr, transactions |-> <<>>]
      new == [old EXCEPT !.transactions = Append(@, transaction)]
  IN [a \in DOMAIN accounts \cup {account} |->
        IF a = account THEN new ELSE accounts[a]]

\* accounts after the account is initialised if missing, the transaction is
\* pushed and displayAccountStatement has sorted the account's array in place.
PushAndDisplay(account, dateStr, transaction) ==
  LET old == IF account \in DOMAIN accounts
             THEN accounts[account]
             ELSE [createdDate |-> dateStr, transactions |-> <<>>]
      new == [old EXCEPT !.transactions = SortByDate(Append(@, transaction))]
  IN [a \in DOMAIN accounts \cup {account} |->
        IF a = account THEN new ELSE accounts[a]]

inputTransaction(dateStr, account, typeStr, amountStr) ==
  /\ pc = "T"
  /\ LET type == toUpperCase(typeStr)
         amount == parseFloat(amountStr)
         currentBalance == getAccountBalance(account)
         transaction == [date |-> dateStr, account |-> account, type |-> type,
                         amount |-> amount,
                         txnId |-> generateTransactionId(dateStr), balance |-> 0]
     IN IF ~isValidDate(dateStr) THEN Reject("T", "InvalidDate")
        ELSE IF type # "D" /\ type # "W" THEN Reject("T", "InvalidType")
        ELSE IF ~NumPositive(amount) THEN Reject("T", "NotPositive")
        ELSE IF ~isValidAmount(amountStr) THEN Reject("T", "TooManyDecimals")
        ELSE IF type = "W" /\ TransactionsUndefined(account)
        THEN \* getAccountBalance throws before anything is changed
             /\ pc' = "crashed"
             /\ out' = [op |-> "T", msg |-> "TypeError"]
             /\ UNCHANGED bank
        ELSE IF type = "W" /\ currentBalance = Null
        THEN Reject("T", "UnopenedAccountWithdrawal")
        ELSE IF type = "W" /\ InsufficientBalance(currentBalance[1], amount)
        THEN Reject("T", "InsufficientFunds")
        ELSE \* the id is generated and the transaction pushed on the global
             \* list; then the push on the account's array throws when that
             \* array is undefined, and otherwise the statement is displayed
             /\ Len(transactions) < MaxTxns
             /\ pc' = IF TransactionsUndefined(account) THEN "crashed" ELSE "menu"
             /\ out' = [op |-> "T",
                        msg |-> IF TransactionsUndefined(account) THEN "TypeError" ELSE "ok"]
             /\ runningNumbers' = BumpRunningNumber(dateStr)
             /\ transactions' = Append(transactions, transaction)
             /\ accounts' = IF TransactionsUndefined(account) THEN accounts
                            ELSE PushAndDisplay(account, dateStr, transaction)
             /\ UNCHANGED interestRules

(***************************************************************************)
(* defineInterestRule                                                      *)
(***************************************************************************)
\* The number 100
Hundred == NumOfInt(100)

\* Variant: a rate of 0 let through.
RateOutOfRangeZeroAllowed(rate) == NumLess(rate, Zero) \/ ~NumLess(rate, Hundred)

\* rate <= 0 || rate >= 100
RateOutOfRange(rate) == ~NumPositive(rate) \/ ~NumLess(rate, Hundred)

\* Variant: the existing rule is never found.
findIndexNever(rules, dateStr) == 0

\* interestRules.findIndex((r) => r.date === dateStr): 0 stands for -1.
findIndex(rules, dateStr) ==
  IF \E i \in 1..Len(rules) : rules[i].date = dateStr
  THEN CHOOSE i \in 1..Len(rules) :
         /\ rules[i].date = dateStr
         /\ \A j \in 1..(i - 1) : rules[j].date # dateStr
  ELSE 0

\* Variant: the list is left unsorted.
UpsertRuleUnsorted(rules, dateStr, ruleId, rate) ==
  LET rule == [date |-> dateStr, ruleId |-> ruleId, rate |-> rate]
      existingRuleIndex == findIndex(rules, dateStr)
  IN IF existingRuleIndex # 0
     THEN [rules EXCEPT ![existingRuleIndex] = rule]
     ELSE Append(rules, rule)

\* The rule list after the replace-or-push and the sort by date.
UpsertRule(rules, dateStr, ruleId, rate) ==
  LET rule == [date |-> dateStr, ruleId |-> ruleId, rate |-> rate]
      existingRuleIndex == findIndex(rules, dateStr)
  IN SortByDate(IF existingRuleIndex # 0
                THEN [rules EXCEPT ![existingRuleIndex] = rule]
                ELSE Append(rules, rule))

defineInterestRule(dateStr, ruleId, rateStr) ==
  /\ pc = "I"
  /\ LET rate == parseFloat(rateStr)
     IN IF ~isValidDate(dateStr) THEN Reject("I", "InvalidDate")
        ELSE IF RateOutOfRange(rate) THEN Reject("I", "InvalidRate")
        ELSE /\ interestRules' = UpsertRule(interestRules, dateStr, ruleId, rate)
             /\ pc' = "menu"
             /\ out' = [op |-> "I", msg |-> "ok"]
             /\ UNCHANGED <<accounts, transactions, runningNumbers>>

(***************************************************************************)
(* getInterestRate and calculateMonthlyInterest                            *)
(***************************************************************************)
\* Array.prototype.sort((a, b) => b.date.localeCompare(a.date)): a stable
\* sort by date descending.
RECURSIVE InsertByDateDesc(_, _)
InsertByDateDesc(t, s) ==
  IF s = <<>> THEN <<t>>
  ELSE IF Head(s).date >= t.date THEN <<Head(s)>> \o InsertByDateDesc(t, Tail(s))
  ELSE <<t>> \o s

RECURSIVE SortByDateDesc(_)
SortByDateDesc(s) ==
  IF s = <<>> THEN <<>>
  ELSE InsertByDateDesc(s[Len(s)], SortByDateDesc(SubSeq(s, 1, Len(s) - 1)))

\* Variant: a rule does not apply on its own effective date.
RuleAppliesStrictly(rule, date) == rule.date < date

\* rule.date <= date
RuleApplies(rule, date) == rule.date <= date

getInterestRate(rules, date) ==
  LET Applies(rule) == RuleApplies(rule, date)
      applicableRules == SelectSeq(rules, Applies)
  IN IF Len(applicableRules) = 0 THEN Zero
     ELSE SortByDateDesc(applicableRules)[1].rate

\* monthStr + day.toString().padStart(2, "0")
DateKey(monthStr, day) == monthStr * 100 + day

\* Variant: nothing is carried in from before the month.
NoneBeforeMonth(txns, monthStr) == <<>>

\* txn.date < monthStr + "01"
BeforeMonth(txns, monthStr) ==
  LET Before(txn) == txn.date < DateKey(monthStr, 1)
  IN SelectSeq(txns, Before)

\* Variant: the transactions of earlier months count as the month's activity.
InMonthOrEarlier(txns, monthStr) ==
  LET UpTo(txn) == txn.date \div 100 <= monthStr
  IN SelectSeq(txns, UpTo)

\* txn.date.startsWith(monthStr)
InMonth(txns, monthStr) ==
  LET Starts(txn) == txn.date \div 100 = monthStr
  IN SelectSeq(txns, Starts)

\* Variant: a transaction takes effect from the day after its date.
RECURSIVE UpdateDailyBalancesFromNextDay(_, _, _, _)
UpdateDailyBalancesFromNextDay(dailyBalances, currentBalance, monthTransactions, daysInMonth) ==
  IF monthTransactions = <<>> THEN dailyBalances
  ELSE LET txn == Head(monthTransactions)
           day == DayOf(txn.date)
           newBalance == calculateNewBalance(currentBalance, txn.type, txn.amount)
       IN UpdateDailyBalancesFromNextDay(
            [d \in 1..daysInMonth |-> IF d > day THEN newBalance ELSE dailyBalances[d]],
            newBalance, Tail(monthTransactions), daysInMonth)

\* The second loop over the month's transactions: each sets the balance of
\* its own day and of every later day to the running balance.
RECURSIVE UpdateDailyBalances(_, _, _, _)
UpdateDailyBalances(dailyBalances, currentBalance, monthTransactions, daysInMonth) ==
  IF monthTransactions = <<>> THEN dailyBalances
  ELSE LET txn == Head(monthTransactions)
           day == DayOf(txn.date)
           newBalance == calculateNewBalance(currentBalance, txn.type, txn.amount)
       IN UpdateDailyBalances(
            [d \in 1..daysInMonth |-> IF d >= day THEN newBalance ELSE dailyBalances[d]],
            newBalance, Tail(monthTransactions), daysInMonth)

\* dailyBalances, keyed by the day of the month, from the sorted transactions.
DailyBalances(allTransactions, monthStr, daysInMonth) ==
  LET startBalance == FoldBalance(Zero, BeforeMonth(allTransactions, monthStr))
  IN UpdateDailyBalances([d \in 1..daysInMonth |-> startBalance], startBalance,
                         InMonth(allTransactions, monthStr), daysInMonth)

DaysPerYear == 365

\* Variant: the day of the rate change counted in the period it ends.
PeriodDaysInclusive(day, periodStartDay) == day - periodStartDay + 1

\* Variant: a period's days counted from the first of the month.
PeriodDaysFromMonthStart(day, periodStartDay) == day - 1

\* periodDays = day - parseInt(currentPeriodStart.substring(6, 8))
PeriodDays(day, periodStartDay) == day - periodStartDay

\* totalInterest += (((periodBalance * currentRate) / 100) * periodDays) / 365
\* when currentRate > 0, else totalInterest is left as it is.
AddPeriodInterest(totalInterest, periodBalance, currentRate, periodDays) ==
  IF NumPositive(currentRate)
  THEN NumAdd(totalInterest,
              NumDivInt(NumMulInt(NumDivInt(NumMul(periodBalance, currentRate), 100),
                                  periodDays),
                        DaysPerYear))
  ELSE totalInterest

\* The first day from `day` on whose rate differs from currentRate, 0 when
\* there is none: on the days before it the loop body changes nothing.
NextRateChange(rules, monthStr, daysInMonth, day, currentRate) ==
  LET changes == {d \in day..daysInMonth :
                    getInterestRate(rules, DateKey(monthStr, d)) # currentRate}
  IN IF changes = {} THEN 0
     ELSE CHOOSE d \in changes : \A other \in changes : d <= other

\* The loop `for (day = 2; day <= daysInMonth; day++)` from `day` on, taken
\* from one rate change to the next, and the final period after it.
RECURSIVE InterestLoop(_, _, _, _, _, _, _, _)
InterestLoop(rules, monthStr, dailyBalances, daysInMonth, day, totalInterest, periodStartDay, currentRate) ==
  LET change == NextRateChange(rules, monthStr, daysInMonth, day, currentRate)
  IN IF change = 0
     THEN AddPeriodInterest(totalInterest, dailyBalances[periodStartDay], currentRate,
                            PeriodDays(daysInMonth, periodStartDay) + 1)
     ELSE InterestLoop(rules, monthStr, dailyBalances, daysInMonth, change + 1,
                       AddPeriodInterest(totalInterest, dailyBalances[periodStartDay],
                                         currentRate, PeriodDays(change, periodStartDay)),
                       change, getInterestRate(rules, DateKey(monthStr, change)))

\* totalInterest before the rounding.
TotalInterest(rules, allTransactions, monthStr) ==
  LET daysInMonth == DaysInMonth(monthStr \div 100, monthStr % 100)
      dailyBalances == DailyBalances(allTransactions, monthStr, daysInMonth)
  IN InterestLoop(rules, monthStr, dailyBalances, daysInMonth, 2, Zero, 1,
                  getInterestRate(rules, DateKey(monthStr, 1)))

\* parseFloat of a toFixed(2) string ("-0.00" gives the zero).
parseFloatFixed(fixed) == NumOfDecimal(fixed.neg, fixed.whole * 100 + fixed.frac, 100)

\* calculateMonthlyInterest on the account's sorted transactions: 0 on an
\* empty rule list, else parseFloat(totalInterest.toFixed(2)).
calculateMonthlyInterest(rules, allTransactions, monthStr) ==
  IF Len(rules) = 0 THEN Zero
  ELSE parseFloatFixed(toFixed2(TotalInterest(rules, allTransactions, monthStr)))

(***************************************************************************)
(* printStatement                                                          *)
(***************************************************************************)
\* monthStr.length !== 6 || isNaN(monthStr)
InvalidMonthFormat(monthStr) == monthStr < 100000 \/ monthStr > 999999

\* The lines pushed by the loop over the month's transactions, the running
\* balance starting at `balance`.
RECURSIVE TransactionLines(_, _)
TransactionLines(balance, txns) ==
  IF txns = <<>> THEN <<>>
  ELSE LET txn == Head(txns)
           newBalance == calculateNewBalance(balance, txn.type, txn.amount)
       IN <<[date |-> txn.date, txnId |-> txn.txnId, type |-> txn.type,
             amount |-> toFixed2(txn.amount), balance |-> toFixed2(newBalance)]>>
            \o TransactionLines(newBalance, Tail(txns))

\* The day the interest line is dated: year + month + "30".
InterestLineDay == 30

\* Variant: the interest is shown but not added to the running balance.
InterestLineBalanceUnchanged(monthStr, interest, balance) ==
  [date |-> DateKey(monthStr, InterestLineDay), txnId |-> <<>>, type |-> "I",
   amount |-> toFixed2(interest), balance |-> toFixed2(balance)]

\* The interest line pushed when interest > 0.
InterestLine(monthStr, interest, balance) ==
  [date |-> DateKey(monthStr, InterestLineDay), txnId |-> <<>>, type |-> "I",
   amount |-> toFixed2(interest), balance |-> toFixed2(NumAdd(balance, interest))]

\* statementLines of a statement that is displayed, given the interest that
\* calculateMonthlyInterest returned.
StatementLines(stored, monthStr, interest) ==
  LET accountTransactions == SortByDate(InMonth(stored, monthStr))
      transactionsBefore == SortByDate(BeforeMonth(stored, monthStr))
      startBalance == FoldBalance(Zero, transactionsBefore)
      balance == FoldBalance(startBalance, accountTransactions)
  IN TransactionLines(startBalance, accountTransactions)
       \o (IF NumPositive(interest) THEN <<InterestLine(monthStr, interest, balance)>>
           ELSE <<>>)

printStatement(account, monthStr) ==
  /\ pc = "P"
  /\ IF ~Truthy(account) THEN Reject("P", "AccountNotFound")
     ELSE IF InvalidMonthFormat(monthStr) THEN Reject("P", "InvalidMonth")
     ELSE IF TransactionsUndefined(account)
     THEN \* filter on undefined throws
          /\ pc' = "crashed"
          /\ out' = [op |-> "P", msg |-> "TypeError"]
          /\ UNCHANGED bank
     ELSE IF Len(InMonth(accounts[account].transactions, monthStr)) = 0
     THEN Reject("P", "NoActivity")
     ELSE LET stored == accounts[account].transactions
              interest == calculateMonthlyInterest(interestRules, SortByDate(stored),
                                                   monthStr)
          IN /\ pc' = "menu"
             /\ out' = [op |-> "P", msg |-> "ok", account |-> account, month |-> monthStr,
                        lines |-> StatementLines(stored, monthStr, interest),
                        interest |-> interest]
             \* calculateMonthlyInterest sorts the account's array in place,
             \* unless it returns early on an empty rule list
             /\ accounts' = IF Len(interestRules) = 0 THEN accounts
                            ELSE [accounts EXCEPT ![account].transactions = SortByDate(stored)]
             /\ UNCHANGED <<transactions, interestRules, runningNumbers>>

(***************************************************************************)
(* Specification                                                           *)
(***************************************************************************)
\* The transaction lines the user types. For "AC001": every line whose four
\* fields all pass validation, and the line "20230610 AC001 D 100.00" with
\* its date or its amount replaced by each member of that field's alphabet.
\* For every account: the lines "20230610 <account> <type> 100.00". (A line
\* with several invalid fields is answered like the line with the first of
\* them alone.)
TxnLines ==
  {line \in TxnDates \X {"AC001"} \X TypeStrs \X AmountStrs :
     /\ isValidDate(line[1])
     /\ toUpperCase(line[3]) \in {"D", "W"}
     /\ NumPositive(parseFloat(line[4]))
     /\ isValidAmount(line[4])}
  \cup {<<dateStr, "AC001", "D", [whole |-> 100, frac |-> <<0, 0>>]>> :
          dateStr \in TxnDates}
  \cup {<<20230610, "AC001", "D", amountStr>> : amountStr \in AmountStrs}
  \cup {<<20230610, account, typeStr, [whole |-> 100, frac |-> <<0, 0>>]>> :
          account \in Accounts, typeStr \in TypeStrs}

Next ==
  \/ \E choice \in {"T", "I", "P"} : ChooseOption(choice)
  \/ InvalidOption
  \/ Quit
  \/ Blank
  \/ InvalidFormat
  \/ \E line \in TxnLines : inputTransaction(line[1], line[2], line[3], line[4])
  \/ \E dateStr \in RuleDates, ruleId \in RuleIds, rateStr \in RateInputs :
       defineInterestRule(dateStr, ruleId, rateStr)
  \/ \E account \in Accounts, monthStr \in MonthStrs : printStatement(account, monthStr)

Spec == Init /\ [][Next]_vars

\* Sessions in which the user only defines interest rules, over a wider
\* choice of effective dates and rule ids.
NextRules ==
  \/ ChooseOption("I")
  \/ InvalidOption
  \/ Quit
  \/ Blank
  \/ InvalidFormat
  \/ \E dateStr \in ScheduleDates, ruleId \in ScheduleRuleIds, rateStr \in RateInputs :
       defineInterestRule(dateStr, ruleId, rateStr)

SpecRules == Init /\ [][NextRules]_vars

\* Sessions in which the user records amounts with cents on "AC001".
CentTxnDates == {20230601, 20230610}

CentTxnLines ==
  {<<dateStr, "AC001", typeStr, amountStr>> :
     dateStr \in CentTxnDates, typeStr \in {"D", "W"}, amountStr \in CentAmountStrs}

NextCents ==
  \/ ChooseOption("T")
  \/ Blank
  \/ \E line \in CentTxnLines : inputTransaction(line[1], line[2], line[3], line[4])

SpecCents == Init /\ [][NextCents]_vars

(***************************************************************************)
(* Ledger properties                                                       *)
(***************************************************************************)
\* The valid dates and months among the inputs.
ValidTxnDates == {d \in TxnDates : isValidDate(d)}

\* The transactions recorded for an account, in recording order.
RecordedFor(account) ==
  LET Mine(txn) == txn.account = account
  IN SelectSeq(transactions, Mine)

\* The decimal a string of digits with a point spells, as the fraction
\* num / den, and in cents.
Decimal(str) ==
  [num |-> str.whole * Pow10(Len(str.frac)) + DigitsValue(str.frac),
   den |-> Pow10(Len(str.frac))]

DecimalCents(str) == (Decimal(str).num * 100) \div Decimal(str).den

\* The cents a toFixed(2) string stands for.
CentsShown(fixed) ==
  IF fixed.neg THEN 0 - (fixed.whole * 100 + fixed.frac) ELSE fixed.whole * 100 + fixed.frac

\* The decimal amount, in cents, that a number stands for: the cents nearest
\* to it. (A recorded amount is the double nearest to a decimal of at most
\* two places, which this gives back.)
CentsOf(x) == CentsShown(toFixed2(x))

\* The sum, in cents, of the amounts of the transactions of a type in a
\* sequence.
RECURSIVE SumOfType(_, _)
SumOfType(txns, type) ==
  IF txns = <<>> THEN 0
  ELSE (IF Head(txns).type = type THEN CentsOf(Head(txns).amount) ELSE 0)
         + SumOfType(Tail(txns), type)

\* Deposits minus withdrawals of an account, whatever their dates: the
\* account's balance as a decimal, in cents.
TotalBalanceIn(txns, account) ==
  LET Mine(txn) == txn.account = account
  IN SumOfType(SelectSeq(txns, Mine), "D") - SumOfType(SelectSeq(txns, Mine), "W")

TotalBalance(account) == TotalBalanceIn(transactions, account)

\* The position of a recorded transaction in the global list.
PositionOf(txn) == CHOOSE i \in 1..Len(transactions) : transactions[i] = txn

\* u is at or before t in chronological order: an earlier date, or the
\* same date and recorded no later.
AtOrBefore(u, t) ==
  \/ u.date < t.date
  \/ u.date = t.date /\ PositionOf(u) <= PositionOf(t)

\* The balance of t's account once t, and every transaction of the account
\* that precedes t chronologically, is applied.
ChronologicalBalanceAt(t) ==
  LET UpTo(u) == u.account = t.account /\ AtOrBefore(u, t)
      prefix == SelectSeq(transactions, UpTo)
  IN SumOfType(prefix, "D") - SumOfType(prefix, "W")

\* C1: for every account, the balance folded over its transactions in
\* chronological order (date ascending, recording order within a date) is
\* >= 0 at every prefix.
ChronologicalPrefixesNonNegative ==
  \A i \in 1..Len(transactions) : ChronologicalBalanceAt(transactions[i]) >= 0

\* C2: in every reachable state each account's total balance (all its
\* deposits minus all its withdrawals, regardless of date) is >= 0.
TotalBalanceNonNegative ==
  \A a \in Accounts : TotalBalance(a) >= 0

\* An account whose withdrawal was just accepted.
WithdrawalAccepted ==
  /\ out = [op |-> "T", msg |-> "ok"]
  /\ transactions[Len(transactions)].type = "W"
  /\ TotalBalance(transactions[Len(transactions)].account) >= 0

\* The id `D-k` read back: the eight digits of the date, a dash, and at
\* least two digits spelling k.
IsIdOf(id, date, k) ==
  /\ Len(id) >= 11
  /\ DigitsValue(SubSeq(id, 1, 8)) = date
  /\ id[9] = Dash
  /\ \A i \in 10..Len(id) : id[i] \in 0..9
  /\ DigitsValue(SubSeq(id, 10, Len(id))) = k
  /\ (Len(id) > 11 => id[10] # 0)

RecordedOn(date) ==
  LET On(txn) == txn.date = date
  IN SelectSeq(transactions, On)

\* C3: for each date D the ids of the transactions dated D, over all
\* accounts and in recording order, are D-01, D-02, ..., D-n: none shared,
\* none skipped, and the date's counter stands at n.
IdsRunPerDate ==
  \A d \in ValidTxnDates :
    LET s == RecordedOn(d)
    IN /\ \A k \in 1..Len(s) : IsIdOf(s[k].txnId, d, k)
       /\ Len(s) > 0 => d \in DOMAIN runningNumbers /\ runningNumbers[d] = Len(s)
       /\ Len(s) = 0 => d \notin DOMAIN runningNumbers

\* Two accounts have transacted on one date.
SharedDateAcrossAccounts ==
  \E i \in 1..Len(transactions), j \in 1..Len(transactions) :
    /\ i < j
    /\ transactions[i].date = transactions[j].date
    /\ transactions[i].account # transactions[j].account
    /\ transactions[j].account \in DOMAIN accounts

(***************************************************************************)
(* Rejections                                                              *)
(***************************************************************************)
RejectMsgs ==
  {"InvalidFormat", "InvalidDate", "InvalidType", "NotPositive", "TooManyDecimals",
   "UnopenedAccountWithdrawal", "InsufficientFunds", "InvalidRate",
   "AccountNotFound", "InvalidMonth", "NoActivity"}

\* A record operation the claim lists as rejected.
RecordIsRejected(dateStr, account, typeStr, amountStr) ==
  \/ ~isValidDate(dateStr)
  \/ toUpperCase(typeStr) \notin {"D", "W"}
  \/ Decimal(amountStr).num <= 0
  \/ Len(amountStr.frac) > 2
  \/ toUpperCase(typeStr) = "W" /\ account \notin DOMAIN accounts
  \/ /\ toUpperCase(typeStr) = "W"
     /\ account \in DOMAIN accounts
     /\ DecimalCents(amountStr) > TotalBalance(account)

DefineIsRejected(dateStr, rateStr) ==
  \/ ~isValidDate(dateStr)
  \/ Decimal(rateStr).num <= 0
  \/ Decimal(rateStr).num >= 100 * Decimal(rateStr).den

PrintIsRejected(account, monthStr) ==
  \/ account \notin DOMAIN accounts
  \/ \A i \in 1..Len(transactions) :
       transactions[i].account = account => transactions[i].date \div 100 # monthStr

\* C4: a rejected operation (record, define-rule or print-statement) leaves
\* the accounts, every account's transaction sequence, the global list, the
\* per-date id counters and the rule list unchanged: a step that changes
\* any of them is no step of a rejected operation.
RejectionChangesNothing ==
  [][ \/ UNCHANGED bank
      \/ /\ out'.msg \notin RejectMsgs
         /\ pc = "T" =>
              \A line \in TxnLines :
                 RecordIsRejected(line[1], line[2], line[3], line[4])
                   => ~inputTransaction(line[1], line[2], line[3], line[4])
         /\ pc = "I" =>
              \A dateStr \in RuleDates, ruleId \in RuleIds, rateStr \in RateInputs :
                 DefineIsRejected(dateStr, rateStr)
                   => ~defineInterestRule(dateStr, ruleId, rateStr)
         /\ pc = "P" =>
              \A account \in Accounts, monthStr \in MonthStrs :
                 PrintIsRejected(account, monthStr) => ~printStatement(account, monthStr)
    ]_vars

\* A withdrawal was refused for lack of funds on an account that holds money.
RejectedOnFundedAccount ==
  /\ out = [op |-> "T", msg |-> "InsufficientFunds"]
  /\ pc = "T"
  /\ \E a \in DOMAIN accounts : TotalBalance(a) > 0
  /\ Len(interestRules) > 0

\* C5: a withdrawal for an account with no prior accepted transaction is
\* always rejected, the account still does not exist afterwards, and the
\* first transaction recorded for every existing account is a deposit.
UnopenedWithdrawalRejected ==
  [][ /\ \A dateStr \in TxnDates, account \in Accounts, typeStr \in TypeStrs,
           amountStr \in AmountStrs :
           ( /\ toUpperCase(typeStr) = "W"
             /\ account \notin DOMAIN accounts
             /\ inputTransaction(dateStr, account, typeStr, amountStr) )
           => /\ pc' = "T"
              /\ out'.msg \in RejectMsgs
              /\ account \notin DOMAIN accounts'
      /\ \A a \in DOMAIN accounts' : RecordedFor(a)'[1].type = "D"
    ]_vars

\* The well-formed withdrawal lines.
WithdrawalLines ==
  {line \in TxnLines \cup CentTxnLines :
     /\ isValidDate(line[1])
     /\ toUpperCase(line[3]) = "W"
     /\ Decimal(line[4]).num > 0
     /\ Len(line[4].frac) <= 2}

\* C6: a withdrawal on an existing account is rejected for insufficient
\* funds exactly when its amount exceeds the account's balance; one equal to
\* the balance is accepted and leaves 0; a rejected one leaves the balance.
\* The amounts and the balance are the decimals of the lines recorded.
InsufficientFundsExactly ==
  [][ pc = "T" =>
      \A line \in WithdrawalLines :
        ( /\ line[2] \in DOMAIN accounts
          /\ inputTransaction(line[1], line[2], line[3], line[4]) )
        => LET account == line[2]
               amount == DecimalCents(line[4])
               before == TotalBalance(account)
               after == TotalBalanceIn(transactions', account)
           IN /\ out'.msg = "InsufficientFunds" <=> amount > before
              /\ out'.msg = "InsufficientFunds" => pc' = "T" /\ after = before
              /\ out'.msg # "InsufficientFunds"
                   => out'.msg = "ok" /\ after = before - amount
              /\ amount = before => after = 0
    ]_vars

(***************************************************************************)
(* Interest rules                                                          *)
(***************************************************************************)
\* A rate in hundredths of a percent: the decimal of two places nearest to it.
HundredthsOf(rate) == CentsOf(rate)

\* The positions of the rules effective on a date.
RulesOn(rules, date) == {i \in 1..Len(rules) : rules[i].date = date}

\* C7: the rule list holds at most one rule per effective date; an accepted
\* define leaves, for its date, exactly the rule with its rule id and rate,
\* keeps the rules of the other dates, and does not change the number of
\* rules when the date already had one.
LastWriteWins ==
  [][ /\ \A i \in 1..Len(interestRules') :
           Cardinality(RulesOn(interestRules', interestRules'[i].date)) = 1
      /\ pc = "I" =>
           \A dateStr \in ScheduleDates, ruleId \in ScheduleRuleIds, rateStr \in RateInputs :
             ( /\ ~DefineIsRejected(dateStr, rateStr)
               /\ defineInterestRule(dateStr, ruleId, rateStr) )
             => /\ \E i \in 1..Len(interestRules') :
                     /\ interestRules'[i].date = dateStr
                     /\ interestRules'[i].ruleId = ruleId
                     /\ HundredthsOf(interestRules'[i].rate) = DecimalCents(rateStr)
                /\ Len(interestRules') =
                     Len(interestRules)
                       + (IF RulesOn(interestRules, dateStr) = {} THEN 1 ELSE 0)
                /\ \A i \in 1..Len(interestRules) :
                     interestRules[i].date # dateStr
                       => \E j \in 1..Len(interestRules') :
                            interestRules'[j] = interestRules[i]
    ]_vars

\* Every valid date of the schedule has a rule, one of them with the second
\* rule id, right after an accepted define.
ScheduleFull ==
  /\ out = [op |-> "I", msg |-> "ok"]
  /\ Len(interestRules) = Cardinality({d \in ScheduleDates : isValidDate(d)})
  /\ \E i \in 1..Len(interestRules) : interestRules[i].ruleId = "RULE02"
  /\ \E i \in 1..Len(interestRules) : interestRules[i].ruleId = "RULE01"

\* C8: after every accepted define the rule list is sorted by effective
\* date strictly ascending and every stored rate r satisfies 0 < r < 100.
RulesSortedAndInRange ==
  /\ \A i \in 1..Len(interestRules), j \in 1..Len(interestRules) :
       i < j => interestRules[i].date < interestRules[j].date
  /\ \A i \in 1..Len(interestRules) :
       /\ HundredthsOf(interestRules[i].rate) > 0
       /\ HundredthsOf(interestRules[i].rate) < 10000
       /\ NumPositive(interestRules[i].rate)
       /\ NumLess(interestRules[i].rate, Hundred)

\* Three rules are held, with different rates, after an accepted define.
ThreeRulesHeld ==
  /\ out = [op |-> "I", msg |-> "ok"]
  /\ Len(interestRules) = 3
  /\ interestRules[1].rate # interestRules[2].rate

\* The months of the statements asked for, and their days.
ValidMonthStrs == {m \in MonthStrs : ~InvalidMonthFormat(m) /\ (m % 100) \in 1..12}

DaysOf(monthStr) == 1..DaysInMonth(monthStr \div 100, monthStr % 100)

ProbeDates ==
  UNION {{DateKey(m, day) : day \in DaysOf(m)} : m \in ValidMonthStrs}

\* The rate of the rule with the greatest effective date <= date, 0 if none.
LatestRuleRate(date) ==
  LET upTo == {i \in 1..Len(interestRules) : interestRules[i].date <= date}
  IN IF upTo = {} THEN Zero
     ELSE LET latest == CHOOSE i \in upTo :
                          \A j \in upTo : interestRules[j].date <= interestRules[i].date
          IN interestRules[latest].rate

\* C9: for every date D the rate lookup returns the rate of the rule with
\* the greatest effective date <= D (a rule effective on D applies to D),
\* and 0 when no rule is effective on or before D.
RateLookupIsLatestRule ==
  \A date \in ProbeDates \cup RuleDates :
    getInterestRate(interestRules, date) = LatestRuleRate(date)

\* A statement was built for a month in which a second rule takes effect.
StatementAcrossRateChange ==
  /\ out.op = "P"
  /\ out.msg = "ok"
  /\ Len(interestRules) = 2
  /\ interestRules[1].rate # interestRules[2].rate
  /\ interestRules[2].date \div 100 = out.month
  /\ NumPositive(out.interest)

\* The maximal runs <<first, last>> of consecutive days of a month that
\* share one rate: a run starts on day 1 or where the rate differs from the
\* day before, ends on the last day or where it differs from the day after,
\* and holds no other start.
RateRuns(monthStr) ==
  LET days == DaysOf(monthStr)
      rate == [day \in days |-> LatestRuleRate(DateKey(monthStr, day))]
      firsts == {day \in days : (day - 1) \in days => rate[day - 1] # rate[day]}
      lasts == {day \in days : (day + 1) \in days => rate[day + 1] # rate[day]}
  IN {run \in firsts \X lasts :
        /\ run[1] <= run[2]
        /\ \A day \in (run[1] + 1)..run[2] : day \notin firsts}

\* balance * rate / 100 * days / 365, in the numbers of the program.
RunInterest(balance, rate, days) ==
  NumDivInt(NumMulInt(NumDivInt(NumMul(balance, rate), 100), days), 365)

\* The sum over the runs, taken in the order of their days, added to `sum`;
\* a run of rate 0 contributes nothing.
RECURSIVE SumOverRuns(_, _, _, _)
SumOverRuns(runs, monthStr, dailyBalances, sum) ==
  IF runs = {} THEN sum
  ELSE LET run == CHOOSE r \in runs : \A other \in runs : r[1] <= other[1]
           rate == LatestRuleRate(DateKey(monthStr, run[1]))
       IN SumOverRuns(runs \ {run}, monthStr, dailyBalances,
                      IF rate = Zero THEN sum
                      ELSE NumAdd(sum, RunInterest(dailyBalances[run[1]], rate,
                                                   run[2] - run[1] + 1)))

\* The monthly interest before the rounding: 0 on an empty rule list.
MonthlyInterestUnrounded(rules, allTransactions, monthStr) ==
  IF Len(rules) = 0 THEN Zero ELSE TotalInterest(rules, allTransactions, monthStr)

\* C10: the monthly interest of a statement, before rounding, is the sum,
\* over the maximal runs of days of the month sharing a rate, of (daily
\* balance on the run's first day) * rate / 100 * (days in the run) / 365;
\* the interest shown is that sum fixed to two decimals.
InterestIsSumOverRuns ==
  (out.op = "P" /\ out.msg = "ok") =>
    LET stored == accounts[out.account].transactions
        sum == SumOverRuns(RateRuns(out.month), out.month,
                           DailyBalances(stored, out.month,
                                         DaysInMonth(out.month \div 100, out.month % 100)),
                           Zero)
    IN /\ MonthlyInterestUnrounded(interestRules, stored, out.month) = sum
       /\ CentsOf(out.interest) = CentsOf(sum)

\* A statement with interest was built for a month with a rate change and a
\* transaction of the account inside one of the runs, after the run's first day.
StatementWithMidRunTransaction ==
  /\ out.op = "P"
  /\ out.msg = "ok"
  /\ NumPositive(out.interest)
  /\ Cardinality(RateRuns(out.month)) >= 2
  /\ \E i \in 1..Len(transactions), run \in RateRuns(out.month) :
       /\ transactions[i].account = out.account
       /\ transactions[i].date \div 100 = out.month
       /\ DayOf(transactions[i].date) > run[1]
       /\ DayOf(transactions[i].date) <= run[2]
       /\ NumPositive(LatestRuleRate(DateKey(out.month, run[1])))

(***************************************************************************)
(* Interest periods                                                        *)
(***************************************************************************)
\* The periods of the loop `for (day = 2; day <= daysInMonth; day++)` from
\* `day` on and the final period after it: for each, the day of
\* currentPeriodStart, its periodDays and its currentRate.
RECURSIVE PeriodLoop(_, _, _, _, _, _)
PeriodLoop(rules, monthStr, daysInMonth, day, periodStartDay, currentRate) ==
  IF day > daysInMonth
  THEN <<[start |-> periodStartDay, days |-> PeriodDays(daysInMonth, periodStartDay) + 1,
          rate |-> currentRate]>>
  ELSE LET rate == getInterestRate(rules, DateKey(monthStr, day))
       IN IF rate # currentRate
          THEN <<[start |-> periodStartDay, days |-> PeriodDays(day, periodStartDay),
                  rate |-> currentRate]>>
                 \o PeriodLoop(rules, monthStr, daysInMonth, day + 1, day, rate)
          ELSE PeriodLoop(rules, monthStr, daysInMonth, day + 1, periodStartDay, currentRate)

\* The periods calculateMonthlyInterest goes through for a month.
Periods(rules, monthStr) ==
  PeriodLoop(rules, monthStr, DaysInMonth(monthStr \div 100, monthStr % 100), 2, 1,
             getInterestRate(rules, DateKey(monthStr, 1)))

\* Months of 28, 29, 30 and 31 days.
ProbeMonths == {202302, 202402, 202305, 202306}

RECURSIVE SumDays(_)
SumDays(periods) ==
  IF periods = <<>> THEN 0 ELSE Head(periods).days + SumDays(Tail(periods))

\* The interest of the periods, in their order, added to `sum`.
RECURSIVE SumPeriodInterest(_, _, _)
SumPeriodInterest(periods, dailyBalances, sum) ==
  IF periods = <<>> THEN sum
  ELSE SumPeriodInterest(Tail(periods), dailyBalances,
                         IF Head(periods).rate = Zero THEN sum
                         ELSE NumAdd(sum, RunInterest(dailyBalances[Head(periods).start],
                                                      Head(periods).rate,
                                                      Head(periods).days)))

\* The periods are those the interest is accumulated over (on a table of
\* daily balances that tells the days apart); they are contiguous and
\* disjoint, start at day 1, end at the last day, and their day counts sum
\* to the days of the month.
PeriodsPartition(monthStr) ==
  LET periods == Periods(interestRules, monthStr)
      daysInMonth == DaysInMonth(monthStr \div 100, monthStr % 100)
      tellApart == [d \in 1..daysInMonth |-> NumOfInt(100 * d)]
  IN /\ InterestLoop(interestRules, monthStr, tellApart, daysInMonth, 2, Zero, 1,
                     getInterestRate(interestRules, DateKey(monthStr, 1)))
          = SumPeriodInterest(periods, tellApart, Zero)
     /\ periods[1].start = 1
     /\ \A i \in 1..Len(periods) : periods[i].days >= 1
     /\ \A i \in 1..(Len(periods) - 1) :
          periods[i + 1].start = periods[i].start + periods[i].days
     /\ periods[Len(periods)].start + periods[Len(periods)].days - 1 = daysInMonth
     /\ SumDays(periods) = daysInMonth

\* The days of a month on which a rule takes effect.
RuleDaysIn(monthStr) ==
  {DayOf(interestRules[i].date) :
     i \in {j \in 1..Len(interestRules) : interestRules[j].date \div 100 = monthStr}}

\* A period starts on day k; the one before it, if any, ends on day k - 1.
PeriodStartsOn(monthStr, k) ==
  LET periods == Periods(interestRules, monthStr)
  IN \E i \in 1..Len(periods) :
       /\ periods[i].start = k
       /\ i > 1 => periods[i - 1].start + periods[i - 1].days - 1 = k - 1
       /\ i > 1 => SumDays(SubSeq(periods, 1, i - 1)) = k - 1

\* C11 (as stated): the periods of the interest calculation partition the
\* month, and every rule effective on day k of the month ends the previous
\* period at day k - 1 and starts a new one at day k.
PeriodsSplitAtEveryRule ==
  \A monthStr \in ProbeMonths :
    Len(interestRules) > 0 =>
      /\ PeriodsPartition(monthStr)
      /\ \A k \in RuleDaysIn(monthStr) : PeriodStartsOn(monthStr, k)

\* C11 (amended): the periods of the interest calculation partition the
\* month, and a rule effective on day k of the month whose rate differs from
\* the rate in force on day k - 1 ends the previous period at day k - 1 and
\* starts a new one at day k; a rule that repeats the rate in force starts
\* no period.
PeriodsSplitAtRateChanges ==
  \A monthStr \in ProbeMonths :
    Len(interestRules) > 0 =>
      /\ PeriodsPartition(monthStr)
      /\ \A k \in RuleDaysIn(monthStr) :
           IF k = 1 \/ LatestRuleRate(DateKey(monthStr, k))
                         # LatestRuleRate(DateKey(monthStr, k - 1))
           THEN PeriodStartsOn(monthStr, k)
           ELSE \A i \in 1..Len(Periods(interestRules, monthStr)) :
                  Periods(interestRules, monthStr)[i].start # k

\* A rate change on day 15 of a 30-day month gives periods of 14 and 16 days.
PeriodsOf14And16Days ==
  /\ out = [op |-> "I", msg |-> "ok"]
  /\ Len(Periods(interestRules, 202306)) = 2
  /\ Periods(interestRules, 202306)[1].days = 14
  /\ Periods(interestRules, 202306)[2].days = 16
  /\ NumPositive(Periods(interestRules, 202306)[1].rate)

(***************************************************************************)
(* Sessions on one account around one month                                *)
(***************************************************************************)
\* The last day of April and two days of May 2023, a month of 31 days.
MonthTxnDates == {20230430, 20230510, 20230520}

MonthTxnLines ==
  {<<dateStr, "AC001", typeStr, [whole |-> 100, frac |-> <<0, 0>>]>> :
     dateStr \in MonthTxnDates, typeStr \in {"D", "W"}}

\* A rule in force from before the month and one that takes effect inside it.
MonthRuleDates == {20230415, 20230515}

MonthRateInputs == {[whole |-> 1, frac |-> <<0, 0>>], [whole |-> 2, frac |-> <<2, 0>>]}

StatementMonths == {202304, 202305}

\* Sessions in which the user records transactions of "AC001" in any order
\* of their dates, defines rules and asks for the statements of the account.
NextMonth ==
  \/ \E choice \in {"T", "I", "P"} : ChooseOption(choice)
  \/ Blank
  \/ \E line \in MonthTxnLines : inputTransaction(line[1], line[2], line[3], line[4])
  \/ \E dateStr \in MonthRuleDates, rateStr \in MonthRateInputs :
       defineInterestRule(dateStr, "RULE01", rateStr)
  \/ \E monthStr \in StatementMonths : printStatement("AC001", monthStr)

SpecMonth == Init /\ [][NextMonth]_vars

(***************************************************************************)
(* Statements                                                              *)
(***************************************************************************)
\* A statement was just displayed.
StatementBuilt == out.op = "P" /\ out.msg = "ok"

LastDayOf(monthStr) == DateKey(monthStr, DaysInMonth(monthStr \div 100, monthStr % 100))

\* C12: whenever a statement contains the interest line, that line is dated
\* the last calendar day of the statement's month, whatever the month's
\* length.
InterestLineOnLastDay ==
  StatementBuilt =>
    \A i \in 1..Len(out.lines) :
      out.lines[i].type = "I" => out.lines[i].date = LastDayOf(out.month)

\* The positions of the interest lines of the statement displayed.
InterestLines == {i \in 1..Len(out.lines) : out.lines[i].type = "I"}

\* C13: a statement built contains the interest line if and only if the
\* month's rounded interest is > 0; it is then the only one and the last
\* line, with an empty transaction id, and its running balance is that of
\* the line before it plus the interest; when the interest is <= 0, and on
\* an empty rule list, there is no interest line.
InterestLineIffPositive ==
  StatementBuilt =>
    LET n == Len(out.lines)
        interest == calculateMonthlyInterest(interestRules,
                                             accounts[out.account].transactions, out.month)
    IN /\ out.interest = interest
       /\ InterestLines # {} <=> CentsOf(interest) > 0
       /\ CentsOf(interest) > 0 =>
            /\ InterestLines = {n}
            /\ n > 1
            /\ out.lines[n].txnId = <<>>
            /\ CentsShown(out.lines[n].amount) = CentsOf(interest)
            /\ CentsShown(out.lines[n].balance)
                 = CentsShown(out.lines[n - 1].balance) + CentsOf(interest)
       /\ Len(interestRules) = 0 => CentsOf(interest) = 0 /\ InterestLines = {}

\* A statement with two transaction lines and the interest line was built.
StatementWithInterestLine ==
  /\ StatementBuilt
  /\ Len(out.lines) = 3
  /\ out.lines[3].type = "I"
  /\ NumPositive(out.interest)
  /\ out.lines[2].type = "W"

\* The account has no transaction dated in the month.
NoTransactionsIn(account, monthStr) ==
  \A i \in 1..Len(transactions) :
    transactions[i].account = account => transactions[i].date \div 100 # monthStr

\* C14: a statement request for an existing account and a month in which
\* the account has no transaction fails with no-activity and produces no
\* lines, whatever balance is carried in and whatever rules exist.
NoActivityWithoutTransactions ==
  [][ pc = "P" =>
      \A account \in DOMAIN accounts, monthStr \in ValidMonthStrs :
        ( /\ NoTransactionsIn(account, monthStr)
          /\ printStatement(account, monthStr) )
        => /\ out' = [op |-> "P", msg |-> "NoActivity"]
           /\ pc' = "P"
           /\ UNCHANGED bank
    ]_vars

\* A request was just refused for no activity while some account holds
\* money and every month in which it has no transaction but an earlier one
\* would earn interest.
NoActivityDespiteInterest ==
  /\ out = [op |-> "P", msg |-> "NoActivity"]
  /\ \E account \in DOMAIN accounts :
       /\ TotalBalance(account) > 0
       /\ \E monthStr \in ValidMonthStrs : NoTransactionsIn(account, monthStr)
       /\ \A monthStr \in ValidMonthStrs :
            NoTransactionsIn(account, monthStr)
              => CentsOf(calculateMonthlyInterest(interestRules,
                                                  accounts[account].transactions,
                                                  monthStr)) > 0
       /\ \A other \in DOMAIN accounts : other = account

(***************************************************************************)
(* Accounts                                                                *)
(***************************************************************************)
\* C15: an account exists if and only if a transaction for it has been
\* accepted; an existing account is never removed and its created date
\* stays the date of its first recorded transaction; a statement request
\* fails with account-not-found exactly when the account does not exist.
AccountsExistIffTransacted ==
  [][ /\ \A account \in Accounts :
           account \in DOMAIN accounts'
             <=> \E i \in 1..Len(transactions') : transactions'[i].account = account
      /\ \A account \in DOMAIN accounts :
           /\ account \in DOMAIN accounts'
           /\ accounts'[account].createdDate = accounts[account].createdDate
      /\ \A account \in DOMAIN accounts' :
           accounts'[account].createdDate = RecordedFor(account)'[1].date
      /\ pc = "P" =>
           \A account \in Accounts, monthStr \in MonthStrs :
             printStatement(account, monthStr)
               => (out'.msg = "AccountNotFound" <=> account \notin DOMAIN accounts)
    ]_vars

(***************************************************************************)
(* Statement lines                                                         *)
(***************************************************************************)
\* The positions, in the global list, of the account's transactions dated
\* in the month, and of those dated before its first day.
RecordedIn(account, monthStr) ==
  {i \in 1..Len(transactions) :
     transactions[i].account = account /\ transactions[i].date \div 100 = monthStr}

RecordedBefore(account, monthStr) ==
  {i \in 1..Len(transactions) :
     transactions[i].account = account /\ transactions[i].date < DateKey(monthStr, 1)}

Signed(type, amount) == IF type = "D" THEN amount ELSE 0 - amount

RECURSIVE SumSigned(_)
SumSigned(positions) ==
  IF positions = {} THEN 0
  ELSE LET i == CHOOSE j \in positions : TRUE
       IN Signed(transactions[i].type, CentsOf(transactions[i].amount))
            + SumSigned(positions \ {i})

\* The lines of the statement displayed that are not the interest line.
TxnLineCount == Cardinality({k \in 1..Len(out.lines) : out.lines[k].type # "I"})

\* The position, in the global list, of the transaction a line shows.
RecordedAt(line) == CHOOSE i \in 1..Len(transactions) : transactions[i].txnId = line.txnId

\* The sequence number at the end of a transaction id.
SeqNumber(txnId) == DigitsValue(SubSeq(txnId, 10, Len(txnId)))

\* C16: a statement built has exactly one line per transaction of the
\* account dated in the month, by ascending date and, on one date, in
\* recording order (ascending id sequence number); the running balance of
\* the k-th line is the account's balance over the transactions dated before
\* the 1st of the month plus the signed sum of the first k lines' amounts.
OneLinePerTransactionInOrder ==
  StatementBuilt =>
    LET n == TxnLineCount
        lines == out.lines
        mine == RecordedIn(out.account, out.month)
        opening == SumSigned(RecordedBefore(out.account, out.month))
    IN /\ n = Cardinality(mine)
       /\ \A k \in 1..n : lines[k].type # "I"
       /\ \A i \in mine :
            Cardinality({k \in 1..n : lines[k].txnId = transactions[i].txnId}) = 1
       /\ \A k \in 1..n :
            /\ RecordedAt(lines[k]) \in mine
            /\ lines[k].date = transactions[RecordedAt(lines[k])].date
            /\ lines[k].type = transactions[RecordedAt(lines[k])].type
            /\ parseFloatFixed(lines[k].amount) = transactions[RecordedAt(lines[k])].amount
            /\ CentsShown(lines[k].balance)
                 = opening + SumSigned({RecordedAt(lines[j]) : j \in 1..k})
       /\ \A k \in 1..n, l \in 1..n :
            k < l =>
              \/ lines[k].date < lines[l].date
              \/ /\ lines[k].date = lines[l].date
                 /\ RecordedAt(lines[k]) < RecordedAt(lines[l])
                 /\ SeqNumber(lines[k].txnId) < SeqNumber(lines[l].txnId)

\* A statement with two transaction lines was built of which the later
\* dated transaction was recorded first.
StatementOfBackDatedTransactions ==
  /\ StatementBuilt
  /\ TxnLineCount = 2
  /\ out.lines[1].date < out.lines[2].date
  /\ RecordedAt(out.lines[1]) > RecordedAt(out.lines[2])

(***************************************************************************)
(* Recovery                                                                *)
(***************************************************************************)
\* The lines of a deposit whose four fields pass validation.
DepositLines ==
  {line \in TxnLines :
     /\ isValidDate(line[1])
     /\ toUpperCase(line[3]) = "D"
     /\ Decimal(line[4]).num > 0
     /\ isValidAmount(line[4])}

\* C17: after a rejected operation the system prompts again, and a valid
\* operation entered next is accepted and applied; only the quit command
\* ends the session.
RejectionsRecoverable ==
  [][ /\ out'.msg \in RejectMsgs => pc' \in {"T", "I", "P"} /\ pc' = out'.op
      /\ pc' \notin {"menu", "T", "I", "P"} => pc = "menu" /\ out'.msg = "Quit"
      /\ (out.msg \in RejectMsgs /\ pc = "T") =>
           \A line \in DepositLines :
             inputTransaction(line[1], line[2], line[3], line[4])
               => /\ out'.msg = "ok"
                  /\ pc' = "menu"
                  /\ Len(RecordedFor(line[2])') = Len(RecordedFor(line[2])) + 1
                  /\ line[2] \in DOMAIN accounts'
      /\ (out.msg \in RejectMsgs /\ pc = "I") =>
           \A dateStr \in RuleDates, ruleId \in RuleIds, rateStr \in RateInputs :
             ( /\ ~DefineIsRejected(dateStr, rateStr)
               /\ defineInterestRule(dateStr, ruleId, rateStr) )
             => /\ out'.msg = "ok"
                /\ \E i \in 1..Len(interestRules') :
                     /\ interestRules'[i].date = dateStr
                     /\ interestRules'[i].ruleId = ruleId
                     /\ HundredthsOf(interestRules'[i].rate) = DecimalCents(rateStr)
      /\ (out.msg \in RejectMsgs /\ pc = "P") =>
           \A account \in DOMAIN accounts, monthStr \in MonthStrs :
             ( /\ ~PrintIsRejected(account, monthStr)
               /\ ~InvalidMonthFormat(monthStr)
               /\ printStatement(account, monthStr) )
             => out'.msg = "ok" /\ out'.account = account /\ out'.month = monthStr
    ]_vars

(***************************************************************************)
(* Daily balances                                                          *)
(***************************************************************************)
\* The positions, in the global list, of the account's transactions dated
\* on or before a date.
RecordedUpTo(account, date) ==
  {i \in 1..Len(transactions) :
     transactions[i].account = account /\ transactions[i].date <= date}

\* The table calculateMonthlyInterest builds for an account and a month.
DailyBalanceTable(account, monthStr) ==
  DailyBalances(SortByDate(accounts[account].transactions), monthStr,
                DaysInMonth(monthStr \div 100, monthStr % 100))

\* C18: for every day d of the month, the daily balance table's value for d
\* is the account's balance over all its transactions dated <= d, in
\* whatever order the transactions were recorded.
DailyBalanceIsBalanceUpToDay ==
  \A account \in DOMAIN accounts, monthStr \in StatementMonths :
    /\ DOMAIN DailyBalanceTable(account, monthStr) = DaysOf(monthStr)
    /\ \A d \in DaysOf(monthStr) :
         CentsOf(DailyBalanceTable(account, monthStr)[d])
           = SumSigned(RecordedUpTo(account, DateKey(monthStr, d)))

\* The interest of a statement was computed over a table that changes on
\* two days of the month, the transaction of the earlier day having been
\* recorded last.
TableOfBackDatedTransactions ==
  /\ StatementBuilt
  /\ Len(interestRules) > 0
  /\ Len(transactions) = 2
  /\ transactions[1].date \div 100 = out.month
  /\ transactions[2].date \div 100 = out.month
  /\ transactions[2].date < transactions[1].date
  /\ LET table == DailyBalanceTable(out.account, out.month)
     IN /\ table[DayOf(transactions[2].date) - 1] = Zero
        /\ table[DayOf(transactions[2].date)] # Zero
        /\ table[DayOf(transactions[1].date)] # table[DayOf(transactions[1].date) - 1]

(***************************************************************************)
(* Statements are queries                                                  *)
(***************************************************************************)
\* The account's stored sequence holds its recorded transactions in
\* recording order.
StoredInRecordingOrder(account) == accounts[account].transactions = RecordedFor(account)

\* The account's stored sequence holds its recorded transactions by
\* ascending date, those of one date in recording order.
StoredInDateOrder(account) ==
  LET stored == accounts[account].transactions
      recorded == RecordedFor(account)
  IN /\ Len(stored) = Len(recorded)
     /\ \A i \in 1..Len(recorded) : \E k \in 1..Len(stored) : stored[k] = recorded[i]
     /\ \A k \in 1..Len(stored), l \in 1..Len(stored) :
          k < l => AtOrBefore(stored[k], stored[l])

\* A step of printStatement, in any of its outcomes: each writes an output
\* of the operation "P", as only the prompt's format error does besides.
StatementStep == pc = "P" /\ out'.op = "P" /\ out'.msg # "InvalidFormat"

\* A statement request leaves the accounts, the global list, the rules and
\* the id counters as they were, and the balance of an account whose
\* statement shows interest as well.
StatementRequestChangesNothing ==
  /\ UNCHANGED bank
  /\ (out'.msg = "ok" /\ NumPositive(out'.interest))
       => FoldBalance(Zero, accounts'[out'.account].transactions)
            = FoldBalance(Zero, accounts[out'.account].transactions)

\* C19 (as stated): building a statement leaves the ledger, the rule list
\* and the id counters unchanged, the interest shown is not added to the
\* account's balance, and every account's stored sequence remains in
\* recording order.
StatementLeavesRecordingOrder ==
  [][ StatementStep
        => /\ StatementRequestChangesNothing
           /\ \A a \in DOMAIN accounts' : StoredInRecordingOrder(a)'
    ]_vars

\* C19 (amended): building a statement leaves the ledger, the rule list and
\* the id counters unchanged, the interest shown is not added to the
\* account's balance, and every account's stored sequence remains as the
\* last accepted transaction left it: by ascending date, the transactions of
\* one date in recording order.
StatementLeavesStoredOrder ==
  [][ StatementStep
        => /\ StatementRequestChangesNothing
           /\ \A a \in DOMAIN accounts' :
                /\ StoredInDateOrder(a)'
                /\ accounts'[a].transactions = accounts[a].transactions
    ]_vars

\* A statement with interest was built for an account whose transactions
\* were recorded out of date order, under a non-empty rule list.
StatementOfReorderedAccount ==
  /\ StatementBuilt
  /\ NumPositive(out.interest)
  /\ Len(interestRules) > 0
  /\ ~StoredInRecordingOrder(out.account)
  /\ StoredInDateOrder(out.account)

(***************************************************************************)
(* Sign of the interest                                                    *)
(***************************************************************************)
\* C20: for every account and month, the computed monthly interest is >= 0,
\* no day of the month having a negative daily balance.
InterestNonNegative ==
  \A account \in DOMAIN accounts, monthStr \in ValidMonthStrs :
    /\ CentsOf(calculateMonthlyInterest(interestRules,
                                        SortByDate(accounts[account].transactions),
                                        monthStr)) >= 0
    /\ Len(interestRules) > 0 =>
         \A d \in DaysOf(monthStr) :
           CentsOf(DailyBalances(SortByDate(accounts[account].transactions), monthStr,
                                 DaysInMonth(monthStr \div 100, monthStr % 100))[d]) >= 0

====
